---- MODULE Spec2Model ----
(***************************************************************************)
(* Verification model of go-dleq: the libsecp256k1-backed secp256k1 group  *)
(* engine (secp256k1/curve_ethereum.go, the pooling file) and the          *)
(* cross-group DLEQ proof protocol that is built on the group contract.    *)
(*                                                                         *)
(* Arithmetic is scaled down so that it can be enumerated: a field element *)
(* and a scalar occupy ScalarLen = 1 byte instead of 32, the curve is      *)
(* y^2 = x^3 + 7 over F_211, a group of prime order 199.  As for the real  *)
(* curve, N < P < 256^ScalarLen, N has as many bits as the scalar width,   *)
(* 2^BitSize <= N, 7 is a quadratic non-residue (no point has x = 0), and  *)
(* the byte range holds values >= N and values >= P.                       *)
(***************************************************************************)
EXTENDS Integers, Sequences, FiniteSets, TLC

-----------------------------------------------------------------------------
(* Parameters of the scaled-down curve *)

\* field prime, curve.Params().P
P == 211

\* group order, c.order and curve.Params().N
N == 199

\* y^2 = x^3 + CurveB
CurveB == 7

\* width of a scalar / a coordinate in bytes (32 in the source)
ScalarLen == 1

\* 256^ScalarLen: first value that does not fit a scalar-width buffer
Radix == 256

\* generator, basePoint()
Gx == 3

Gy == 33

\* x coordinate of the compressed constant in altBasePoint()
AltX == 4

\* a nil *big.Int
Nil == -1

\* value standing for every integer too wide to matter (>= 256^2)
Huge == 65536

Byte == 0..255

-----------------------------------------------------------------------------
(* Outcomes *)

IsPanic(r) == "panic" \in DOMAIN r

Panic(msg) == [panic |-> msg]

IsErr(r) == "err" \in DOMAIN r

Err(msg) == [err |-> msg]

Failed(r) == IsPanic(r) \/ IsErr(r)

-----------------------------------------------------------------------------
(* math/big *)

\* big.Int.SetBytes: big-endian value; values of 256^2 and more collapse to Huge
RECURSIVE SetBytesAcc(_, _)
SetBytesAcc(acc, bs) ==
    IF bs = <<>> THEN acc
    ELSE LET v == acc * 256 + Head(bs)
         IN  SetBytesAcc(IF v >= Huge THEN Huge ELSE v, Tail(bs))

SetBytes(bs) == SetBytesAcc(0, bs)

\* big.Int.Bytes: minimal big-endian bytes, empty for 0
RECURSIVE IntBytes(_)
IntBytes(v) == IF v = 0 THEN <<>> ELSE Append(IntBytes(v \div 256), v % 256)

\* big.Int.FillBytes into a buffer of len bytes; panics when v does not fit
RECURSIVE Pow256(_)
Pow256(n) == IF n = 0 THEN 1 ELSE 256 * Pow256(n - 1)

Zeros(n) == [i \in 1..n |-> 0]

FillFits(v, len) == v # Nil /\ v < Pow256(len)

FillBytes(v, len) == Zeros(len - Len(IntBytes(v))) \o IntBytes(v)

\* Euclidean modulus of big.Int.Mod
Mod(a, m) == a % m

InvP == [a \in 1..(P - 1) |-> CHOOSE b \in 1..(P - 1) : (a * b) % P = 1]

InvN == [a \in 1..(N - 1) |-> CHOOSE b \in 1..(N - 1) : (a * b) % N = 1]

\* big.Int.ModSqrt(a, P): a square root, or Nil when a is a non-residue
HasSqrt == [a \in 0..(P - 1) |-> \E y \in 0..(P - 1) : (y * y) % P = a]

SqrtP == [a \in 0..(P - 1) |->
            IF HasSqrt[a] THEN CHOOSE y \in 0..(P - 1) : (y * y) % P = a ELSE Nil]

-----------------------------------------------------------------------------
(* Hash functions: deterministic stand-ins of the output width used *)

RECURSIVE Mix(_, _, _)
Mix(h, bs, m) == IF bs = <<>> THEN h ELSE Mix((h * 33 + Head(bs) + 1) % m, Tail(bs), m)

\* sha256.Sum256: ScalarLen bytes
Sum256(bs) == Mix(106, bs, Radix)

\* sha3.Sum512: 2 * ScalarLen bytes
Sum512(bs) == Mix(24011, bs, Radix * Radix)

-----------------------------------------------------------------------------
(* go-ethereum BitCurve: Add, and ScalarMult of libsecp256k1 *)

Pt(x, y) == [x |-> x, y |-> y]

NilPoint == Pt(Nil, Nil)

Zero2 == Pt(0, 0)

OnCurve(x, y) ==
    /\ x \in 0..(P - 1) /\ y \in 0..(P - 1)
    /\ (y * y) % P = (x * x * x + CurveB) % P

\* affineFromJacobian
affineScale(x, y, zinv, zinvsq) ==
    Pt((x * zinvsq) % P, (y * ((zinvsq * zinv) % P)) % P)

affineInverse(x, y, zinv) == affineScale(x, y, zinv, (zinv * zinv) % P)

affineFromJacobian(x, y, z) ==
    IF z % P = 0 THEN Zero2 ELSE affineInverse(x, y, InvP[z % P])

\* addJacobian with z1 = z2 = 1
addY3(s1, h, r, j, v, x3) ==
    affineFromJacobian(x3, (r * ((v - x3) % P) - 2 * ((s1 * j) % P)) % P, (2 * h) % P)

addX3(s1, h, r, j, v) == addY3(s1, h, r, j, v, (r * r - j - 2 * v) % P)

addI(u1, s1, h, r, i) == addX3(s1, h, r, (h * i) % P, (u1 * i) % P)

addH(u1, s1, h, r) == addI(u1, s1, h, r, (4 * h * h) % P)

addJacobian(x1, y1, x2, y2) ==
    addH(x1 % P, y1 % P, ((x2 % P) - (x1 % P)) % P, (2 * (((y2 % P) - (y1 % P)) % P)) % P)

\* doubleJacobian with z = 1
doubleY3(y, c, d, e, x3) ==
    affineFromJacobian(x3, (e * ((d - x3) % P) - 8 * c) % P, (2 * y) % P)

doubleX3(y, c, d, e) == doubleY3(y, c, d, e, (((e * e) % P) - 2 * d) % P)

doubleD(y, a, c, xb) ==
    doubleX3(y, c, (2 * ((xb * xb - a - c) % P)) % P, (3 * a) % P)

doubleC(x, y, a, b) == doubleD(y, a, (b * b) % P, (x + b) % P)

doubleJacobian(x, y) == doubleC(x, y, (x * x) % P, (y * y) % P)

\* BitCurve.Add
CurveAdd(x1, y1, x2, y2) ==
    IF x1 = 0 /\ y1 = 0 THEN Pt(x2, y2)
    ELSE IF x2 = 0 /\ y2 = 0 THEN Pt(x1, y1)
    ELSE IF x1 = x2 /\ y1 = y2 THEN doubleJacobian(x1, y1)
    ELSE addJacobian(x1, y1, x2, y2)

\* k * (x, y) by double-and-add
mulAdd(x, y, k, dbl) == IF k % 2 = 1 THEN CurveAdd(dbl.x, dbl.y, x, y) ELSE dbl

mulDouble(x, y, k, half) == mulAdd(x, y, k, CurveAdd(half.x, half.y, half.x, half.y))

RECURSIVE MulPoint(_, _, _)
MulPoint(x, y, k) ==
    IF k = 0 THEN Zero2 ELSE mulDouble(x, y, k, MulPoint(x, y, k \div 2))

\* BitCurve.ScalarMult: secp256k1_ext_scalar_mul refuses a zero or overflowing
\* scalar, and the wrapper then returns (nil, nil)
ScalarMult(x, y, scalarBytes) ==
    LET k == SetBytes(scalarBytes)
    IN  IF k = 0 \/ k >= N THEN NilPoint ELSE MulPoint(x, y, k)

-----------------------------------------------------------------------------
(* libsecp256k1 ECDSA as wrapped by go-ethereum *)

\* message hash as a scalar (secp256k1_scalar_set_b32 reduces)
MsgScalar(hash) == SetBytes(hash) % N

\* a key check that lets the zero key through
SeckeyValidLax(key) == SetBytes(key) < N

\* secp256k1_ec_seckey_verify
SeckeyValid(key) == LET d == SetBytes(key) IN d # 0 /\ d < N

SigR(nonce) == MulPoint(Gx, Gy, nonce).x % N

SigSRaw(hash, key, nonce) ==
    (InvN[nonce] * ((MsgScalar(hash) + SigR(nonce) * SetBytes(key)) % N)) % N

\* the signing loop retries until the nonce yields r # 0 and s # 0
NonceOK(hash, key, nonce) ==
    /\ nonce \in 1..(N - 1)
    /\ SigR(nonce) # 0
    /\ SigSRaw(hash, key, nonce) # 0

\* low-S normalisation of secp256k1_ecdsa_sig_sign
LowS(s) == IF s > N \div 2 THEN N - s ELSE s

\* ethsecp256k1.Sign: [R || S] (the recovery byte is not used by the caller)
EthSign(hash, key, nonce) ==
    IF ~SeckeyValid(key) THEN Err("invalid private key")
    ELSE [sig |-> FillBytes(SigR(nonce), ScalarLen)
                  \o FillBytes(LowS(SigSRaw(hash, key, nonce)), ScalarLen)]

\* ethsecp256k1.VerifySignature(pubkey, hash, sig), pubkey = 0x04 || X || Y
VerifySignature(pubkey, hash, sig) ==
    LET r  == SetBytes(SubSeq(sig, 1, ScalarLen))
        s  == SetBytes(SubSeq(sig, ScalarLen + 1, 2 * ScalarLen))
        qx == SetBytes(SubSeq(pubkey, 2, 1 + ScalarLen))
        qy == SetBytes(SubSeq(pubkey, 2 + ScalarLen, 1 + 2 * ScalarLen))
    IN  /\ r < N /\ s < N
        /\ OnCurve(qx, qy)
        /\ s <= N \div 2
        /\ r # 0 /\ s # 0
        /\ LET sn == InvN[s]
               u1 == (sn * MsgScalar(hash)) % N
               u2 == (sn * r) % N
               a  == MulPoint(Gx, Gy, u1)
               b  == MulPoint(qx, qy, u2)
               pr == CurveAdd(a.x, a.y, b.x, b.y)
           IN  pr # Zero2 /\ pr.x % N = r

-----------------------------------------------------------------------------
(* secp256k1/curve_ethereum.go *)

Scalar(v) == [value |-> v]

\* nil coordinates are read as zero by the PointImpl methods
Coord(c) == IF c = Nil THEN 0 ELSE c

decompressPoint(x, isOdd) ==
    LET y == SqrtP[(x * x * x + CurveB) % P]
    IN  IF y = Nil THEN Panic("invalid point: no square root")
        ELSE IF (y % 2 = 1) # isOdd THEN [y |-> P - y] ELSE [y |-> y]

basePoint == Pt(Gx, Gy)

altBasePoint == Pt(AltX, decompressPoint(AltX, FALSE).y)

\* a bit size of the whole scalar width
BitSizeWide == 8 * ScalarLen

BitSize == 7

\* a size that counts both coordinates
CompressedPointSizeBoth == 1 + 2 * ScalarLen

CompressedPointSize == 1 + ScalarLen

DecodeToPoint(in) ==
    IF Len(in) # 1 + ScalarLen THEN Err("invalid compressed point length")
    ELSE IF in[1] # 2 /\ in[1] # 3 THEN Err("invalid compressed point format")
    ELSE LET x == SetBytes(Tail(in))
             y == decompressPoint(x, in[1] = 3)
         IN  IF IsPanic(y) THEN y ELSE [point |-> Pt(x, y.y)]

\* a decoder that reduces what it read modulo the order
DecodeToScalarReducing(in) ==
    IF Len(in) # ScalarLen THEN Err("invalid scalar length")
    ELSE [scalar |-> Scalar(Mod(SetBytes(in), N))]

DecodeToScalar(in) ==
    IF Len(in) # ScalarLen THEN Err("invalid scalar length")
    ELSE [scalar |-> Scalar(SetBytes(in))]

\* a failed read answered with the zero scalar
NewRandomScalarDefault(rd) ==
    IF IsErr(rd) THEN Scalar(0) ELSE Scalar(SetBytes(rd.bytes))

\* rd is what rand.Read delivered: the bytes, or its error
NewRandomScalar(rd) ==
    IF IsErr(rd) THEN Panic(rd.err) ELSE Scalar(SetBytes(rd.bytes))

reverse(in) == [i \in 1..Len(in) |-> in[Len(in) - i + 1]]

ScalarFromBytes(b) == Scalar(SetBytes(reverse(b)))

ScalarFromInt(in) == Scalar(in)

\* the hash value taken as it is
HashToScalarRaw(in) == Scalar(Sum512(in))

HashToScalar(in) == Scalar(Mod(Sum512(in), N))

\* the base point multiplied by the scalar reduced modulo the order
ScalarBaseMulReduced(s) == ScalarMult(Gx, Gy, FillBytes(Mod(s.value, N), ScalarLen))

ScalarBaseMul(s) == ScalarMult(Gx, Gy, FillBytes(s.value, ScalarLen))

\* CurveImpl.ScalarMul: readBits dereferences the coordinates
ScalarMul(s, p) ==
    IF p.x = Nil \/ p.y = Nil THEN Panic("nil pointer dereference")
    ELSE ScalarMult(p.x, p.y, FillBytes(s.value, ScalarLen))

ScalarAdd(s, b) == Scalar(Mod(s.value + b.value, N))

ScalarSub(s, b) == Scalar(Mod(s.value - b.value, N))

ScalarNegate(s) == Scalar(Mod(N - s.value, N))

ScalarMulS(s, b) == Scalar(Mod(s.value * b.value, N))

\* an inverse that is added to what the big.Int taken from the pool holds
ScalarInverseStale(s, prev) ==
    Scalar(IF Mod(s.value, N) = 0 THEN prev ELSE Mod(prev + InvN[Mod(s.value, N)], N))

\* prev is what the big.Int taken from the pool holds: ModInverse leaves it
\* alone, and returns nil, when the scalar has no inverse
ScalarInverse(s, prev) ==
    Scalar(IF Mod(s.value, N) = 0 THEN prev ELSE InvN[Mod(s.value, N)])

ScalarEncode(s) == FillBytes(s.value, ScalarLen)

ScalarEq(s, o) == s.value = o.value

ScalarIsZero(s) == s.value = 0

PointAdd(p, b) == CurveAdd(Coord(p.x), Coord(p.y), Coord(b.x), Coord(b.y))

PointSub(p, b) == CurveAdd(Coord(p.x), Coord(p.y), Coord(b.x), P - Coord(b.y))

PointScalarMul(p, s) == ScalarMult(Coord(p.x), Coord(p.y), FillBytes(s.value, ScalarLen))

\* the x coordinate in as few bytes as it needs
PointEncodeMinimal(p) ==
    <<IF Coord(p.y) % 2 = 1 THEN 3 ELSE 2>> \o IntBytes(Coord(p.x))

PointEncode(p) ==
    <<IF Coord(p.y) % 2 = 1 THEN 3 ELSE 2>> \o FillBytes(Coord(p.x), ScalarLen)

PointIsZero(p) == Coord(p.x) = 0 /\ Coord(p.y) = 0

PointEquals(p, o) == Coord(p.x) = Coord(o.x) /\ Coord(p.y) = Coord(o.y)

\* an encoder whose length byte of r leaves the padding byte out
encodeDERTight(r, s) ==
    LET rb == IntBytes(r)
        sb == IntBytes(s)
        rBytes == IF Len(rb) > 0 /\ rb[1] >= 128 THEN <<0>> \o rb ELSE rb
        sBytes == IF Len(sb) > 0 /\ sb[1] >= 128 THEN <<0>> \o sb ELSE sb
        totalLen == 4 + Len(rBytes) + Len(sBytes)
    IN  <<48, totalLen % 256>> \o <<2, Len(rb) % 256>> \o rBytes
        \o <<2, Len(sBytes) % 256>> \o sBytes

encodeDER(r, s) ==
    LET rb == IntBytes(r)
        sb == IntBytes(s)
        rBytes == IF Len(rb) > 0 /\ rb[1] >= 128 THEN <<0>> \o rb ELSE rb
        sBytes == IF Len(sb) > 0 /\ sb[1] >= 128 THEN <<0>> \o sb ELSE sb
        totalLen == 4 + Len(rBytes) + Len(sBytes)
    IN  <<48, totalLen % 256>> \o <<2, Len(rBytes) % 256>> \o rBytes
        \o <<2, Len(sBytes) % 256>> \o sBytes

\* sig[i] of the source is sig[i + 1] here
decodeDER(sig) ==
    IF Len(sig) < 6 THEN Err("signature too short")
    ELSE IF sig[1] # 48 THEN Err("invalid DER signature")
    ELSE IF 2 >= Len(sig) THEN Err("invalid signature")
    ELSE IF sig[3] # 2 THEN Err("invalid r component")
    ELSE LET rLen == sig[4]
             offR == 4
         IN  IF offR + rLen > Len(sig) THEN Err("invalid r length")
             ELSE LET r    == SetBytes(SubSeq(sig, offR + 1, offR + rLen))
                      offS == offR + rLen
                  IN  IF offS >= Len(sig) \/ sig[offS + 1] # 2
                      THEN Err("invalid s component")
                      ELSE IF offS + 1 >= Len(sig)
                      THEN Panic("index out of range")
                      ELSE LET sLen == sig[offS + 2]
                               offV == offS + 2
                           IN  IF offV + sLen # Len(sig) THEN Err("invalid s length")
                               ELSE [r |-> r,
                                     s |-> SetBytes(SubSeq(sig, offV + 1, Len(sig)))]

\* Sign with the two halves of the library's signature taken in the wrong order
SignSwapped(s, p, nonce) ==
    LET privKeyBytes == FillBytes(s.value, ScalarLen)
        hash == <<Sum256(PointEncode(p))>>
        sig  == EthSign(hash, privKeyBytes, nonce)
    IN  IF IsErr(sig) THEN sig
        ELSE [der |-> encodeDER(SetBytes(SubSeq(sig.sig, ScalarLen + 1, 2 * ScalarLen)),
                                SetBytes(SubSeq(sig.sig, 1, ScalarLen)))]

\* CurveImpl.Sign; nonce is the nonce the library settles on
Sign(s, p, nonce) ==
    LET privKeyBytes == FillBytes(s.value, ScalarLen)
        hash == <<Sum256(PointEncode(p))>>
        sig  == EthSign(hash, privKeyBytes, nonce)
    IN  IF IsErr(sig) THEN sig
        ELSE [der |-> encodeDER(SetBytes(SubSeq(sig.sig, 1, ScalarLen)),
                                SetBytes(SubSeq(sig.sig, ScalarLen + 1, 2 * ScalarLen)))]

\* CurveImpl.Verify: a boolean, or a panic
Verify(pubkey, msgPoint, sig) ==
    LET d == decodeDER(sig)
    IN  IF IsPanic(d) THEN d
        ELSE IF IsErr(d) THEN [ok |-> FALSE]
        ELSE IF ~FillFits(d.r, ScalarLen) \/ ~FillFits(d.s, ScalarLen)
             THEN Panic("math/big: buffer too small to fit value")
        ELSE IF pubkey.x = Nil \/ pubkey.y = Nil
             THEN Panic("nil pointer dereference")
        ELSE LET ethSig == FillBytes(d.r, ScalarLen) \o FillBytes(d.s, ScalarLen)
                 pubKeyBytes == <<4>> \o FillBytes(pubkey.x, ScalarLen)
                                      \o FillBytes(pubkey.y, ScalarLen)
                 hash == <<Sum256(PointEncode(msgPoint))>>
             IN  [ok |-> VerifySignature(pubKeyBytes, hash, ethSig)]

-----------------------------------------------------------------------------
(* The engine's objects: big.Int cells on the heap, ScalarImpl and PointImpl *)
(* holding pointers to them, and bigIntPool.  A heap is the sequence of the  *)
(* cells' integers, a pointer the index of a cell.                           *)

\* the nil pointer
NilRef == 0

\* new(big.Int), big.NewInt: the cell after the last one
NewRef(h) == Len(h) + 1

\* the cell a set to v; a is a cell of h or the new one
Store(h, a, v) == IF a = NewRef(h) THEN Append(h, v) ELSE [h EXCEPT ![a] = v]

\* what the cell a holds; a new big.Int is zero
Load(h, a) == IF a = NewRef(h) THEN 0 ELSE h[a]

\* a pool that hands out the big.Ints that are still in use
getBigIntLive(pl, h) == 1..NewRef(h)

\* the big.Ints bigIntPool.Get may return: one that was put, or a new one
getBigInt(pl, h) == pl \cup {NewRef(h)}

\* a ScalarImpl method whose result is put back by a deferred putBigInt
ScalarImplPoolDeferred(pl, a) == pl \cup {a}

\* bigIntPool after a ScalarImpl method took its result a from it: the result
\* is returned to the caller and never put back
ScalarImplPool(pl, a) == pl \ {a}

\* a putBigInt that pools the cells as they are
putBigIntAsIs(h, pl, a1, a2) == [heap |-> h, pool |-> pl \cup {a1, a2}]

\* putBigInt of the cells a1 and a2: cleared, then pooled
putBigInt(h, pl, a1, a2) ==
    [heap |-> [c \in 1..Len(h) |-> IF c = a1 \/ c = a2 THEN 0 ELSE h[c]],
     pool |-> pl \cup {a1, a2}]

\* the value of the ScalarImpl whose big.Int is the cell s
ScalarOf(h, s) == Scalar(h[s])

\* the value of the PointImpl p = [x, y] of pointers
PointOf(h, p) ==
    Pt(IF p.x = NilRef THEN Nil ELSE h[p.x], IF p.y = NilRef THEN Nil ELSE h[p.y])

ScalarArith == {"Add", "Sub", "Mul", "Negate", "Inverse"}

\* the integer the ScalarImpl method op leaves in its result cell a
ScalarImplResult(op, h, s, b, a) ==
    CASE op = "Add" -> ScalarAdd(ScalarOf(h, s), ScalarOf(h, b)).value
      [] op = "Sub" -> ScalarSub(ScalarOf(h, s), ScalarOf(h, b)).value
      [] op = "Mul" -> ScalarMulS(ScalarOf(h, s), ScalarOf(h, b)).value
      [] op = "Negate" -> ScalarNegate(ScalarOf(h, s)).value
      [] op = "Inverse" -> ScalarInverse(ScalarOf(h, s), Load(h, a)).value

ScalarReads == {"Encode", "Eq", "IsZero"}

ScalarImplRead(op, h, s, b) ==
    CASE op = "Encode" -> [bytes |-> ScalarEncode(ScalarOf(h, s))]
      [] op = "Eq" -> [ok |-> ScalarEq(ScalarOf(h, s), ScalarOf(h, b))]
      [] op = "IsZero" -> [ok |-> ScalarIsZero(ScalarOf(h, s))]

\* a PointImpl of two new big.Ints
NewPoint(h, v) == [heap |-> h \o <<v.x, v.y>>, x |-> Len(h) + 1, y |-> Len(h) + 2]

\* px, py := p.x, p.y, a nil pointer replaced by big.NewInt(0)
orZeroY(h, x, p) ==
    IF p.y = NilRef THEN [heap |-> Append(h, 0), x |-> x, y |-> NewRef(h)]
    ELSE [heap |-> h, x |-> x, y |-> p.y]

orZero(h, p) ==
    IF p.x = NilRef THEN orZeroY(Append(h, 0), NewRef(h), p) ELSE orZeroY(h, p.x, p)

\* BitCurve.Add on pointers: for an operand at infinity the other operand's
\* own big.Ints are returned
BitCurveAdd(h, x1, y1, x2, y2) ==
    IF h[x1] = 0 /\ h[y1] = 0 THEN [heap |-> h, x |-> x2, y |-> y2]
    ELSE IF h[x2] = 0 /\ h[y2] = 0 THEN [heap |-> h, x |-> x1, y |-> y1]
    ELSE NewPoint(h, CurveAdd(h[x1], h[y1], h[x2], h[y2]))

\* BitCurve.ScalarMult on pointers: new big.Ints, or (nil, nil)
BitCurveScalarMult(h, x, y, scalarBytes) ==
    IF ScalarMult(h[x], h[y], scalarBytes) = NilPoint
    THEN [heap |-> h, x |-> NilRef, y |-> NilRef]
    ELSE NewPoint(h, ScalarMult(h[x], h[y], scalarBytes))

addPointers(c1, c2) == BitCurveAdd(c2.heap, c1.x, c1.y, c2.x, c2.y)

\* negY := new(big.Int).Sub(P, ppy)
subPointers(c1, c2) ==
    BitCurveAdd(Append(c2.heap, P - c2.heap[c2.y]), c1.x, c1.y, c2.x, NewRef(c2.heap))

mulPointers(c1, k) == BitCurveScalarMult(c1.heap, c1.x, c1.y, FillBytes(k, ScalarLen))

PointArith == {"Point.Add", "Point.Sub", "Point.ScalarMul", "Point.Copy"}

\* the PointImpl methods that return a point, on the receiver p, the point b
\* and the scalar cell s
PointImplResult(op, h, p, b, s) ==
    CASE op = "Point.Add" -> addPointers(orZero(h, p), orZero(orZero(h, p).heap, b))
      [] op = "Point.Sub" -> subPointers(orZero(h, p), orZero(orZero(h, p).heap, b))
      [] op = "Point.ScalarMul" -> mulPointers(orZero(h, p), h[s])
      [] op = "Point.Copy" ->
            IF p.x = NilRef \/ p.y = NilRef THEN Panic("nil pointer dereference")
            ELSE NewPoint(h, PointOf(h, p))

CurveMuls == {"ScalarBaseMul", "ScalarMul"}

\* CurveImpl.ScalarBaseMul(s) and CurveImpl.ScalarMul(s, p), base the
\* curve's base point
CurveImplResult(op, h, s, p, base) ==
    CASE op = "ScalarBaseMul" ->
            BitCurveScalarMult(h, base.x, base.y, FillBytes(h[s], ScalarLen))
      [] op = "ScalarMul" ->
            IF p.x = NilRef \/ p.y = NilRef THEN Panic("nil pointer dereference")
            ELSE BitCurveScalarMult(h, p.x, p.y, FillBytes(h[s], ScalarLen))

PointReads == {"Point.Encode", "Point.Equals", "Point.IsZero"}

PointImplRead(op, h, p, b) ==
    CASE op = "Point.Encode" -> [bytes |-> PointEncode(PointOf(h, p))]
      [] op = "Point.Equals" -> [ok |-> PointEquals(PointOf(h, p), PointOf(h, b))]
      [] op = "Point.IsZero" -> [ok |-> PointIsZero(PointOf(h, p))]

\* the constructors of a scalar from what rand.Read, or the caller, delivered
Ctors == {"NewRandomScalar", "DecodeToScalar", "ScalarFromBytes", "ScalarFromInt",
          "HashToScalar"}

Construct(c, rd) ==
    CASE c = "NewRandomScalar" -> NewRandomScalar(rd)
      [] c = "DecodeToScalar" -> DecodeToScalar(rd.bytes).scalar
      [] c = "ScalarFromBytes" -> ScalarFromBytes(rd.bytes)
      [] c = "ScalarFromInt" -> ScalarFromInt(SetBytes(rd.bytes))
      [] c = "HashToScalar" -> HashToScalar(rd.bytes)

\* copy(dst, src): as many bytes as both hold
CopyInto(dst, src) == [i \in 1..Len(dst) |-> IF i <= Len(src) THEN src[i] ELSE dst[i]]

\* encodeViaIntoOrFallback: PointImpl has no EncodeInto, so p.Encode() is
\* copied into a buffer of CompressedPointSize() bytes
encodeViaIntoOrFallback(p) == CopyInto(Zeros(CompressedPointSize), PointEncode(p))

\* what an operation that returns a point returned: the panic, or the point
Returned(r) == IF IsPanic(r) THEN r ELSE [point |-> PointOf(r.heap, r)]

\* the operations that take a point
TakesPoint == PointArith \cup PointReads \cup {"ScalarMul", "Verify"}

\* the operation op on the point p and, where it takes them, the point G and
\* the scalar 2; side 1 passes p as the receiver (for Verify: the public
\* key), side 2 as the argument
OnPoint(op, side, p) ==
    LET h  == <<Gx, Gy, 2>> \o (IF p.x = Nil THEN <<>> ELSE <<p.x, p.y>>)
        g  == [x |-> 1, y |-> 2]
        q  == IF p.x = Nil THEN [x |-> NilRef, y |-> NilRef] ELSE [x |-> 4, y |-> 5]
        a  == IF side = 1 THEN q ELSE g
        b  == IF side = 1 THEN g ELSE q
    IN  CASE op \in PointArith -> Returned(PointImplResult(op, h, a, b, 3))
          [] op \in PointReads -> PointImplRead(op, h, a, b)
          [] op = "ScalarMul" -> Returned(CurveImplResult(op, h, 3, q, g))
          [] op = "Verify" ->
                Verify(PointOf(h, a), PointOf(h, b),
                       Sign(ScalarFromInt(2), basePoint, 1).der)

-----------------------------------------------------------------------------
(* The proof core: secret coordinator, bit commitments, per-bit ring       *)
(* argument, witness signatures, verifier and codec, over the group        *)
(* contract.  Both groups are served by the engine above, as in            *)
(* TestBackendCompatibility and the benchmarks.                            *)

\* group descriptors: bit size and order
Secp256k1 == [name |-> "secp256k1", bitSize |-> BitSize, order |-> N]

\* ed25519: bit size 252 of a 256-bit scalar, order just above 2^252
Ed25519 == [name |-> "ed25519", bitSize |-> 8 * ScalarLen - 4, order |-> 17]

Curves == {Secp256k1, Ed25519}

Min(a, b) == IF a <= b THEN a ELSE b

ProofBits(A, B) == Min(A.bitSize, B.bitSize)

\* GenerateSecretForCurves: ScalarLen random bytes cut to min(bitSize) bits,
\* little-endian as ScalarFromBytes expects
GenerateSecretForCurves(A, B, b) ==
    reverse(FillBytes(SetBytes(b) % (2 ^ ProofBits(A, B)), ScalarLen))

\* the value of a secret
SecretValue(x) == SetBytes(reverse(x))

SecretBit(x, i) == (SecretValue(x) \div (2 ^ i)) % 2

\* 2^i as a scalar, by repeated doubling
RECURSIVE PowTwo(_)
PowTwo(i) == IF i = 0 THEN ScalarFromInt(1)
             ELSE ScalarMulS(ScalarFromInt(2), PowTwo(i - 1))

\* Pedersen commitment b*G + r*H
Commit(b, r) ==
    PointAdd(PointScalarMul(basePoint, ScalarFromInt(b)), PointScalarMul(altBasePoint, r))

\* the statement of ring branch j: C opens to j
Branch(C, j) == IF j = 0 THEN C ELSE PointSub(C, basePoint)

\* nonce commitments of one group: the real branch b from the nonce k, the
\* other branch simulated from a chosen response and challenge
RingCommit(b, C, k, sSim, eSim) ==
    LET real == PointScalarMul(altBasePoint, k)
        sim  == PointSub(PointScalarMul(altBasePoint, sSim),
                         PointScalarMul(Branch(C, 1 - b), eSim))
    IN  IF b = 0 THEN [T0 |-> real, T1 |-> sim] ELSE [T0 |-> sim, T1 |-> real]

\* responses of one group for the joint challenge e
RingRespond(b, r, k, sSim, eSim, e) ==
    LET eReal == ScalarSub(e, eSim)
        sReal == ScalarAdd(k, ScalarMulS(eReal, r))
    IN  IF b = 0 THEN [e0 |-> eReal, s0 |-> sReal, s1 |-> sSim]
        ELSE [e0 |-> eSim, s0 |-> sSim, s1 |-> sReal]

\* Fiat-Shamir input: index and fixed-width encodings of both groups' points
Transcript(i, CA, CB, TA, TB) ==
    <<i>> \o PointEncode(CA) \o PointEncode(CB)
          \o PointEncode(TA.T0) \o PointEncode(TA.T1)
          \o PointEncode(TB.T0) \o PointEncode(TB.T1)

\* the draws of bit i, in the order they are taken from the entropy source
Draw(rnd, i, j) ==
    NewRandomScalar(IF rnd[8 * i + j] = Nil THEN Err("entropy source failed")
                    ELSE [bytes |-> <<rnd[8 * i + j]>>])

\* the draws of an n-bit proof that panicked
FailedDraws(rnd, n) ==
    {d \in {Draw(rnd, i, j) : i \in 0..(n - 1), j \in 1..8} : IsPanic(d)}

\* the eight draws of bit i
Draws(rnd, i) == [j \in 1..8 |-> Draw(rnd, i, j)]

\* the responses to the joint challenge e complete the bit's proof
BitRespond(b, d, CA, CB, TA, TB, e) ==
    [CA |-> CA, CB |-> CB, TA |-> TA, TB |-> TB,
     zA |-> RingRespond(b, d[1], d[3], d[5], d[7], e),
     zB |-> RingRespond(b, d[2], d[4], d[6], d[8], e)]

\* the joint challenge is the hash of the bit's transcript
BitChallenge(i, b, d, CA, CB, TA, TB) ==
    BitRespond(b, d, CA, CB, TA, TB, HashToScalar(Transcript(i, CA, CB, TA, TB)))

\* the nonce commitments of both rings
BitRings(i, b, d, CA, CB) ==
    BitChallenge(i, b, d, CA, CB, RingCommit(b, CA, d[3], d[5], d[7]),
                 RingCommit(b, CB, d[4], d[6], d[8]))

\* the commitment pair
BitCommit(i, b, d) == BitRings(i, b, d, Commit(b, d[1]), Commit(b, d[2]))

\* commitment pair and ring share of bit i
BitProof(x, rnd, i) == BitCommit(i, SecretBit(x, i), Draws(rnd, i))

\* aggregate blinding sum of 2^i * r_i over bits 0..n-1; g is 1 for A, 2 for B
RECURSIVE BlindingSum(_, _, _)
BlindingSum(rnd, g, n) ==
    IF n = 0 THEN ScalarFromInt(0)
    ELSE ScalarAdd(BlindingSum(rnd, g, n - 1),
                   ScalarMulS(PowTwo(n - 1), Draw(rnd, n - 1, g)))

\* NewProof(A, B, x); rnd is the entropy consumed, nonce the signing nonce
NewProof(A, B, x, rnd, nonce) ==
    LET n    == ProofBits(A, B)
        xs   == ScalarFromBytes(x)
        X    == PointScalarMul(basePoint, xs)
        sg   == Sign(xs, X, nonce)
    IN  IF IsErr(sg) THEN Err("DegenerateSecret")
        ELSE IF FailedDraws(rnd, n) # {} THEN CHOOSE d \in FailedDraws(rnd, n) : TRUE
        ELSE [bits |-> [i \in 1..n |-> BitProof(x, rnd, i - 1)],
              XA |-> X, XB |-> X,
              RA |-> BlindingSum(rnd, 1, n), RB |-> BlindingSum(rnd, 2, n),
              sigA |-> sg.der, sigB |-> sg.der]

\* both branch equations of one group
RingCheck(C, T, z, e) ==
    LET e1 == ScalarSub(e, z.e0)
    IN  /\ PointEquals(PointScalarMul(altBasePoint, z.s0),
                       PointAdd(T.T0, PointScalarMul(Branch(C, 0), z.e0)))
        /\ PointEquals(PointScalarMul(altBasePoint, z.s1),
                       PointAdd(T.T1, PointScalarMul(Branch(C, 1), e1)))

BitCheck(bp, i) ==
    LET e == HashToScalar(Transcript(i, bp.CA, bp.CB, bp.TA, bp.TB))
    IN  RingCheck(bp.CA, bp.TA, bp.zA, e) /\ RingCheck(bp.CB, bp.TB, bp.zB, e)

\* sum of 2^i * C_i over bits 0..n-1; g is 1 for A, 2 for B
RECURSIVE WeightedSum(_, _, _)
WeightedSum(bits, g, n) ==
    IF n = 0 THEN Zero2
    ELSE PointAdd(WeightedSum(bits, g, n - 1),
                  PointScalarMul(IF g = 1 THEN bits[n].CA ELSE bits[n].CB, PowTwo(n - 1)))

SumCheck(pr) ==
    /\ PointEquals(WeightedSum(pr.bits, 1, Len(pr.bits)),
                   PointAdd(pr.XA, PointScalarMul(altBasePoint, pr.RA)))
    /\ PointEquals(WeightedSum(pr.bits, 2, Len(pr.bits)),
                   PointAdd(pr.XB, PointScalarMul(altBasePoint, pr.RB)))

FailingBits(pr) == {i \in 1..Len(pr.bits) : ~BitCheck(pr.bits[i], i - 1)}

SetMin(S) == CHOOSE m \in S : \A o \in S : m <= o

\* Proof.Verify with the commitment sums checked before the ring proofs
VerifyProofSumFirst(pr) ==
    IF ~SumCheck(pr) THEN Err("CommitmentSumMismatch")
    ELSE IF FailingBits(pr) # {}
    THEN [err |-> "InvalidBitProof", bit |-> SetMin(FailingBits(pr)) - 1]
    ELSE IF Verify(pr.XA, pr.XA, pr.sigA) # [ok |-> TRUE]
            \/ Verify(pr.XB, pr.XB, pr.sigB) # [ok |-> TRUE]
    THEN Err("WitnessSignatureInvalid")
    ELSE [ok |-> TRUE]

\* Proof.Verify: ring proofs, then the commitment sums, then the signatures
VerifyProof(pr) ==
    IF FailingBits(pr) # {}
    THEN [err |-> "InvalidBitProof", bit |-> SetMin(FailingBits(pr)) - 1]
    ELSE IF ~SumCheck(pr) THEN Err("CommitmentSumMismatch")
    ELSE LET vA == Verify(pr.XA, pr.XA, pr.sigA)
         IN  IF IsPanic(vA) THEN vA
             ELSE IF ~vA.ok THEN Err("WitnessSignatureInvalid")
             ELSE LET vB == Verify(pr.XB, pr.XB, pr.sigB)
                  IN  IF IsPanic(vB) THEN vB
                      ELSE IF ~vB.ok THEN Err("WitnessSignatureInvalid")
                      ELSE [ok |-> TRUE]

\* a verification that clears the witness signatures it has checked
VerifyRunClearing(pr) ==
    [proof |-> [pr EXCEPT !.sigA = <<>>, !.sigB = <<>>], result |-> VerifyProof(pr)]

\* one run of Proof.Verify: the proof as the run leaves it, and the result
VerifyRun(pr) == [proof |-> pr, result |-> VerifyProof(pr)]

-----------------------------------------------------------------------------
(* Codec: bitSize tuples, the public points and blinding disclosures, and  *)
(* the two length-prefixed witness signatures                              *)

EncodeRing(T, z) ==
    [pts |-> PointEncode(T.T0) \o PointEncode(T.T1),
     scs |-> ScalarEncode(z.e0) \o ScalarEncode(z.s0) \o ScalarEncode(z.s1)]

EncodeBit(bp) ==
    PointEncode(bp.CA) \o PointEncode(bp.CB)
    \o EncodeRing(bp.TA, bp.zA).pts \o EncodeRing(bp.TB, bp.zB).pts
    \o EncodeRing(bp.TA, bp.zA).scs \o EncodeRing(bp.TB, bp.zB).scs

TupleSize == 6 * CompressedPointSize + 6 * ScalarLen

RECURSIVE EncodeBits(_, _)
EncodeBits(bits, n) ==
    IF n = 0 THEN <<>> ELSE EncodeBits(bits, n - 1) \o EncodeBit(bits[n])

\* Proof.Encode
EncodeProof(pr) ==
    EncodeBits(pr.bits, Len(pr.bits))
    \o PointEncode(pr.XA) \o PointEncode(pr.XB)
    \o ScalarEncode(pr.RA) \o ScalarEncode(pr.RB)
    \o <<Len(pr.sigA)>> \o pr.sigA \o <<Len(pr.sigB)>> \o pr.sigB

\* length of the fixed part for n bits
FixedSize(n) == n * TupleSize + 2 * CompressedPointSize + 2 * ScalarLen

\* the length that the input's own layout declares, 0 when it is too short to tell
LayoutLen(n, in) ==
    IF Len(in) < FixedSize(n) + 1 THEN 0
    ELSE LET lenA == in[FixedSize(n) + 1]
         IN  IF Len(in) < FixedSize(n) + lenA + 2 THEN 0
             ELSE FixedSize(n) + 2 + lenA + in[FixedSize(n) + lenA + 2]

PointAt(in, off) == DecodeToPoint(SubSeq(in, off + 1, off + CompressedPointSize))

ScalarAt(in, off) == DecodeToScalar(SubSeq(in, off + 1, off + ScalarLen))

\* offsets of the points of the input, in layout order
PointOffsets(n) ==
    [k \in 1..(6 * n + 2) |->
        IF k <= 6 * n
        THEN ((k - 1) \div 6) * TupleSize + ((k - 1) % 6) * CompressedPointSize
        ELSE n * TupleSize + (k - 6 * n - 1) * CompressedPointSize]

DecodeBit(in, off) ==
    LET pt(k) == PointAt(in, off + k * CompressedPointSize).point
        sc(k) == ScalarAt(in, off + 6 * CompressedPointSize + k * ScalarLen).scalar
    IN  [CA |-> pt(0), CB |-> pt(1),
         TA |-> [T0 |-> pt(2), T1 |-> pt(3)],
         TB |-> [T0 |-> pt(4), T1 |-> pt(5)],
         zA |-> [e0 |-> sc(0), s0 |-> sc(1), s1 |-> sc(2)],
         zB |-> [e0 |-> sc(3), s0 |-> sc(4), s1 |-> sc(5)]]

\* a decoder that reads the layout and leaves the rest of the input alone
DecodeProofLax(A, B, in) ==
    LET n    == ProofBits(A, B)
        offs == PointOffsets(n)
        bad  == {k \in DOMAIN offs : Failed(PointAt(in, offs[k]))}
        fx   == n * TupleSize
        cps  == CompressedPointSize
        lenA == in[FixedSize(n) + 1]
    IN  IF LayoutLen(n, in) = 0 \/ Len(in) < LayoutLen(n, in) THEN Err("MalformedProof")
        ELSE IF bad # {} THEN PointAt(in, offs[CHOOSE k \in bad : \A o \in bad : k <= o])
        ELSE [proof |->
                [bits |-> [i \in 1..n |-> DecodeBit(in, (i - 1) * TupleSize)],
                 XA |-> PointAt(in, fx).point,
                 XB |-> PointAt(in, fx + cps).point,
                 RA |-> ScalarAt(in, fx + 2 * cps).scalar,
                 RB |-> ScalarAt(in, fx + 2 * cps + ScalarLen).scalar,
                 sigA |-> SubSeq(in, FixedSize(n) + 2, FixedSize(n) + 1 + lenA),
                 sigB |-> SubSeq(in, FixedSize(n) + lenA + 3, LayoutLen(n, in))]]

\* DecodeProof(A, B, in): the length is checked against the layout first,
\* then a failure of the group's decoder is passed on unchanged
DecodeProof(A, B, in) ==
    LET n    == ProofBits(A, B)
        offs == PointOffsets(n)
        bad  == {k \in DOMAIN offs : Failed(PointAt(in, offs[k]))}
        fx   == n * TupleSize
        cps  == CompressedPointSize
        lenA == in[FixedSize(n) + 1]
    IN  IF LayoutLen(n, in) = 0 \/ Len(in) # LayoutLen(n, in) THEN Err("MalformedProof")
        ELSE IF bad # {} THEN PointAt(in, offs[CHOOSE k \in bad : \A o \in bad : k <= o])
        ELSE [proof |->
                [bits |-> [i \in 1..n |-> DecodeBit(in, (i - 1) * TupleSize)],
                 XA |-> PointAt(in, fx).point,
                 XB |-> PointAt(in, fx + cps).point,
                 RA |-> ScalarAt(in, fx + 2 * cps).scalar,
                 RB |-> ScalarAt(in, fx + 2 * cps + ScalarLen).scalar,
                 sigA |-> SubSeq(in, FixedSize(n) + 2, FixedSize(n) + 1 + lenA),
                 sigB |-> SubSeq(in, FixedSize(n) + lenA + 3, Len(in))]]

RingEquals(T, z, U, y) ==
    /\ PointEquals(T.T0, U.T0) /\ PointEquals(T.T1, U.T1)
    /\ ScalarEq(z.e0, y.e0) /\ ScalarEq(z.s0, y.s0) /\ ScalarEq(z.s1, y.s1)

\* structural equality of two proofs
ProofEquals(p, q) ==
    /\ Len(p.bits) = Len(q.bits)
    /\ \A i \in 1..Len(p.bits) :
          /\ PointEquals(p.bits[i].CA, q.bits[i].CA)
          /\ PointEquals(p.bits[i].CB, q.bits[i].CB)
          /\ RingEquals(p.bits[i].TA, p.bits[i].zA, q.bits[i].TA, q.bits[i].zA)
          /\ RingEquals(p.bits[i].TB, p.bits[i].zB, q.bits[i].TB, q.bits[i].zB)
    /\ PointEquals(p.XA, q.XA) /\ PointEquals(p.XB, q.XB)
    /\ ScalarEq(p.RA, q.RA) /\ ScalarEq(p.RB, q.RB)
    /\ p.sigA = q.sigA /\ p.sigB = q.sigB

-----------------------------------------------------------------------------
(* The second arithmetic engine of secp256k1: scalars are residues modulo  *)
(* the order, points are affine with a point at infinity                   *)

Infinity == [inf |-> TRUE]

AltScalarFromBytes(b) == Scalar(SetBytes(reverse(b)) % N)

AltScalarEncode(s) == FillBytes(s.value, ScalarLen)

AltDecodeToScalar(in) ==
    IF Len(in) # ScalarLen THEN Err("invalid scalar length")
    ELSE [scalar |-> Scalar(SetBytes(in) % N)]

\* chord and tangent addition
AltAdd(p, q) ==
    IF p = Infinity THEN q
    ELSE IF q = Infinity THEN p
    ELSE IF p.x = q.x /\ (p.y + q.y) % P = 0 THEN Infinity
    ELSE LET m == IF p = q THEN Mod(3 * p.x * p.x * InvP[(2 * p.y) % P], P)
                  ELSE Mod((q.y - p.y) * InvP[Mod(q.x - p.x, P)], P)
             x == Mod(m * m - p.x - q.x, P)
         IN  Pt(x, Mod(m * (p.x - x) - p.y, P))

RECURSIVE AltMul(_, _)
AltMul(p, k) ==
    IF k = 0 THEN Infinity
    ELSE LET h == AltMul(p, k \div 2)
         IN  IF k % 2 = 1 THEN AltAdd(AltAdd(h, h), p) ELSE AltAdd(h, h)

AltScalarBaseMul(s) == AltMul(Pt(Gx, Gy), s.value)

AltPointEncode(p) ==
    IF p = Infinity THEN <<2>> \o Zeros(ScalarLen)
    ELSE <<2 + (p.y % 2)>> \o FillBytes(p.x, ScalarLen)

AltDecodeToPoint(in) ==
    IF Len(in) # CompressedPointSize THEN Err("invalid point length")
    ELSE IF in[1] # 2 /\ in[1] # 3 THEN Err("invalid compressed point format")
    ELSE LET x  == SetBytes(Tail(in))
             y2 == (x * x * x + CurveB) % P
         IN  IF x >= P \/ ~HasSqrt[y2] THEN Err("invalid point")
             ELSE [point |-> Pt(x, IF SqrtP[y2] % 2 = in[1] % 2 THEN SqrtP[y2]
                                   ELSE P - SqrtP[y2])]

\* what the two engines make of the scalar bytes b
CrossEncode(b) ==
    [in      |-> b,
     ethSc   |-> ScalarEncode(ScalarFromBytes(b)),
     altSc   |-> AltScalarEncode(AltScalarFromBytes(b)),
     ethPt   |-> PointEncode(ScalarBaseMul(ScalarFromBytes(b))),
     altPt   |-> AltPointEncode(AltScalarBaseMul(AltScalarFromBytes(b)))]

-----------------------------------------------------------------------------
(* A client session of the library *)

\* scalars 0..MaxKey and the ones within MaxKey of the group order are used as keys
MaxKey == 1

\* signing nonces 1..MaxNonce
MaxNonce == 6

\* message points ScalarBaseMul(0..MaxMsg)
MaxMsg == 1

\* bytes cut from the end of a signature in transit
MaxCuts == 2

\* first bytes 0..MaxPrefix of the byte strings given to DecodeToPoint
MaxPrefix == 4

\* entropy streams 0..MaxSeed
MaxSeed == 1

\* one of the first MaxHole draws of a stream may be replaced
MaxHole == 2

\* signing nonces 1..MaxProofNonce of the witness signatures
MaxProofNonce == 1

\* encoded proofs are altered in transit for streams 1..MaxTamperSeed
MaxTamperSeed == 1

\* ... and for secrets up to MaxTamperSecret
MaxTamperSecret == 1

\* ... in the tuples of the bits below MaxTamperBit, and in all that
\* follows the tuples
MaxTamperBit == 1

\* bytes cut from, or appended to, an encoded proof in transit
MaxResize == 2

None == [none |-> TRUE]

Keys == (0..MaxKey) \cup ((N - MaxKey)..(N + MaxKey))

Nonces == 1..MaxNonce

MsgPoints == {ScalarBaseMul(ScalarFromInt(k)) : k \in 0..MaxMsg}

\* b with bit j inverted
FlipByte(b, j) ==
    LET w == 2 ^ j IN IF (b \div w) % 2 = 1 THEN b - w ELSE b + w

FlipBit(bs, i, j) == [bs EXCEPT ![i] = FlipByte(bs[i], j)]

\* an entropy stream: byte j is seed * j, but for the byte at pos (if any),
\* which is val, or Nil when that read fails
Streams ==
    {[seed |-> sd, pos |-> 0, val |-> 0] : sd \in 0..MaxSeed}
    \cup {[seed |-> sd, pos |-> ps, val |-> v] :
              sd \in 0..MaxSeed, ps \in 1..MaxHole, v \in {0, Radix - 1, Nil}}

\* what crypto/rand delivers for the n bits of a proof
Entropy(st, n) ==
    [j \in 1..(8 * n) |-> IF j = st.pos THEN st.val ELSE (st.seed * j) % Radix]

\* what rand.Read delivers: a byte string, or an error
Reads == {[bytes |-> <<b>>] : b \in Keys} \cup {Err("entropy source failed")}

DecodeInputs ==
    {<<>>} \cup {<<a>> : a \in 0..MaxPrefix}
    \cup {<<a, x>> : a \in 0..MaxPrefix, x \in Byte}
    \cup {<<a, x, x>> : a \in 0..MaxPrefix, x \in 0..MaxPrefix}

\* the integers of a signature that are encoded: none, one and two bytes of
\* content, with and without the padding byte
DerInts == {0, 1, Radix \div 2 - 1, Radix \div 2, Radix - 1}

\* points that are added and subtracted: the identity, G, H and 2G
LawPoints == {Zero2, basePoint, altBasePoint, PointAdd(basePoint, basePoint)}

\* byte strings given to DecodeToScalar
ScalarInputs == {in \in DecodeInputs : Len(in) = 2 => in[2] <= MaxPrefix}

VARIABLES privKey, msgPoint, sig, wireSig, flips, cuts, verified, decIn, decOut,
          secret, stream, proof, verdict, again, wire, wireOp, decoded, decVerdict,
          cross, trip, pair, hashed, law, heap, pool, scalars, points, lastOp, starved,
          calls, bufs, bufPool

sigVars == <<privKey, msgPoint, sig, wireSig, flips, cuts, verified>>

decVars == <<decIn, decOut>>

proofVars == <<secret, stream, proof, verdict, again>>

wireVars == <<wire, wireOp, decoded, decVerdict>>

\* outcomes of the scenarios of the engine's own tests
testVars == <<trip, pair, hashed, law>>

\* the engine's objects, the last operation on them, and what the
\* constructor returned whose read of the entropy source failed
objVars == <<heap, pool, scalars, points, lastOp, starved>>

labVars == <<testVars, objVars>>

\* calls in flight, the byte slices of the byte pools, and the slices at rest
\* in a pool
concVars == <<calls, bufs, bufPool>>

vars == <<sigVars, decVars, proofVars, wireVars, cross, labVars, concVars>>

\* nothing has been constructed, signed, proved or decoded
Start ==
    /\ privKey = None
    /\ msgPoint = None
    /\ sig = None
    /\ wireSig = <<>>
    /\ flips = 0
    /\ cuts = 0
    /\ verified = None
    /\ decIn = <<>>
    /\ decOut = None
    /\ secret = None
    /\ stream = None
    /\ proof = None
    /\ verdict = None
    /\ again = None
    /\ wire = <<>>
    /\ wireOp = "none"
    /\ decoded = None
    /\ decVerdict = None
    /\ cross = None
    /\ trip = None
    /\ pair = None
    /\ hashed = None
    /\ law = None
    /\ heap = <<basePoint.x, basePoint.y, altBasePoint.x, altBasePoint.y>>
    /\ pool = {}
    /\ scalars = <<>>
    /\ points = <<[x |-> 1, y |-> 2], [x |-> 3, y |-> 4]>>
    /\ lastOp = None
    /\ starved = None
    /\ bufs = <<>>
    /\ bufPool = {}

Init == Start /\ calls = <<>>

\* nothing has been constructed yet
LabIdle ==
    /\ scalars = <<>> /\ Len(points) = 2 /\ pool = {}
    /\ lastOp = None /\ starved = None

\* nothing has been done in this session yet
Idle ==
    /\ sig = None /\ decOut = None /\ secret = None /\ cross = None
    /\ trip = None /\ pair = None /\ hashed = None /\ law = None
    /\ LabIdle

\* privKey := DecodeToScalar(k); sig := Sign(privKey, m)
DoSign ==
    /\ Idle
    /\ \E k \in Keys, m \in MsgPoints, nonce \in Nonces :
        LET d == DecodeToScalar(<<k>>).scalar
            hash == <<Sum256(PointEncode(m))>>
            out == Sign(d, m, nonce)
        IN  /\ SeckeyValid(ScalarEncode(d)) => NonceOK(hash, ScalarEncode(d), nonce)
            /\ privKey' = d
            /\ msgPoint' = m
            /\ sig' = out
            /\ wireSig' = IF IsErr(out) THEN <<>> ELSE out.der
            /\ flips' = 0
            /\ cuts' = 0
            /\ verified' = None
            /\ UNCHANGED <<decVars, proofVars, wireVars, cross, labVars, concVars>>

\* one bit of the signature is inverted in transit
DoFlip ==
    /\ "der" \in DOMAIN sig
    /\ flips = 0
    /\ \E i \in 1..Len(wireSig), j \in 0..7 :
           wireSig' = FlipBit(wireSig, i, j)
    /\ flips' = flips + 1
    /\ verified' = None
    /\ UNCHANGED <<privKey, msgPoint, sig, cuts, decVars, proofVars, wireVars, cross, labVars, concVars>>

\* the last byte of the signature is lost in transit
DoCut ==
    /\ "der" \in DOMAIN sig
    /\ cuts < MaxCuts
    /\ Len(wireSig) > 0
    /\ wireSig' = SubSeq(wireSig, 1, Len(wireSig) - 1)
    /\ cuts' = cuts + 1
    /\ verified' = None
    /\ UNCHANGED <<privKey, msgPoint, sig, flips, decVars, proofVars, wireVars, cross, labVars, concVars>>

\* verified := Verify(ScalarBaseMul(privKey), msgPoint, wireSig)
DoVerify ==
    /\ "der" \in DOMAIN sig
    /\ verified = None
    /\ verified' = Verify(ScalarBaseMul(privKey), msgPoint, wireSig)
    /\ UNCHANGED <<privKey, msgPoint, sig, wireSig, flips, cuts, decVars, proofVars, wireVars, cross, labVars, concVars>>

DoDecodeToPoint ==
    /\ Idle
    /\ \E in \in DecodeInputs :
        /\ decIn' = in
        /\ decOut' = DecodeToPoint(in)
        /\ UNCHANGED <<sigVars, proofVars, wireVars, cross, labVars, concVars>>

\* the same scalar bytes are given to both engines
DoCrossEncode ==
    /\ Idle
    /\ \E b \in Keys :
        /\ cross' = CrossEncode(<<b>>)
        /\ UNCHANGED <<sigVars, decVars, proofVars, wireVars, labVars, concVars>>

\* TestEncodeInto_SizeAndRoundTrip: x random, P = x*G, out = P.Encode(),
\* P2 = DecodeToPoint(out)
DoRoundTrip ==
    /\ Idle
    /\ \E b \in Keys :
        LET Pnt == ScalarBaseMul(NewRandomScalar([bytes |-> <<b>>]))
        IN  /\ trip' = [x |-> b, P |-> Pnt, out |-> PointEncode(Pnt),
                         P2 |-> DecodeToPoint(PointEncode(Pnt))]
            /\ UNCHANGED <<sigVars, decVars, proofVars, wireVars, cross, pair, hashed, law, objVars, concVars>>

\* TestCrossBackendResults: point1 = ScalarBaseMul(privKey),
\* point2 = ScalarMul(privKey, BasePoint()), both encoded
DoCompareMul ==
    /\ Idle
    /\ \E b \in Keys :
        LET privKey1 == DecodeToScalar(<<b>>).scalar
        IN  /\ pair' = [k |-> b,
                         point1 |-> PointEncode(ScalarBaseMul(privKey1)),
                         point2 |-> PointEncode(ScalarMul(privKey1, basePoint))]
            /\ UNCHANGED <<sigVars, decVars, proofVars, wireVars, cross, trip, hashed, law, objVars, concVars>>

\* HashToScalar(in), twice
DoHashToScalar ==
    /\ Idle
    /\ \E in \in DecodeInputs :
        /\ hashed' = [in |-> in, out |-> HashToScalar(in), again |-> HashToScalar(in)]
        /\ UNCHANGED <<sigVars, decVars, proofVars, wireVars, cross, trip, pair, law, objVars, concVars>>

\* TestEncodeInto_MatchesEncodeBytes: x random, P = x*G, the bytes through
\* encodeViaIntoOrFallback and through P.Encode()
DoMatchesEncode ==
    /\ Idle
    /\ \E b \in Keys :
        LET Pnt == ScalarBaseMul(NewRandomScalar([bytes |-> <<b>>]))
        IN  /\ law' = [op |-> "MatchesEncode", x |-> b,
                        viaInto |-> encodeViaIntoOrFallback(Pnt),
                        viaEncode |-> PointEncode(Pnt)]
            /\ UNCHANGED <<sigVars, decVars, proofVars, wireVars, cross, trip, pair, hashed, objVars, concVars>>

\* inv := s.Inverse(), the big.Int taken from the pool holding prev;
\* prod := inv.Mul(s)
DoInverse ==
    /\ Idle
    /\ \E b \in Keys, prev \in Keys :
        LET s == DecodeToScalar(<<b>>).scalar
        IN  /\ law' = [op |-> "Inverse", s |-> s, prev |-> prev,
                        inv |-> ScalarInverse(s, prev),
                        prod |-> ScalarMulS(ScalarInverse(s, prev), s)]
            /\ UNCHANGED <<sigVars, decVars, proofVars, wireVars, cross, trip, pair, hashed, objVars, concVars>>

\* D := p.Sub(q); back := D.Add(q)
DoSubAdd ==
    /\ Idle
    /\ \E p \in LawPoints, q \in LawPoints :
        /\ law' = [op |-> "SubAdd", P |-> p, Q |-> q, D |-> PointSub(p, q),
                    back |-> PointAdd(PointSub(p, q), q)]
        /\ UNCHANGED <<sigVars, decVars, proofVars, wireVars, cross, trip, pair, hashed, objVars, concVars>>

\* der := encodeDER(r, s); out := decodeDER(der)
DoDerRoundTrip ==
    /\ Idle
    /\ \E r \in DerInts, s \in DerInts :
        /\ law' = [op |-> "DER", r |-> r, s |-> s, der |-> encodeDER(r, s),
                    out |-> decodeDER(encodeDER(r, s))]
        /\ UNCHANGED <<sigVars, decVars, proofVars, wireVars, cross, trip, pair, hashed, objVars, concVars>>

\* an operation is given the point whose coordinates are nil; ref is what it
\* returns for the point (0, 0)
DoNilPoint ==
    /\ Idle
    /\ \E o \in TakesPoint, side \in 1..2 :
        /\ law' = [op |-> "NilPoint", what |-> o, side |-> side,
                    out |-> OnPoint(o, side, NilPoint),
                    ref |-> OnPoint(o, side, Zero2)]
        /\ UNCHANGED <<sigVars, decVars, proofVars, wireVars, cross, trip, pair, hashed, objVars, concVars>>

\* BenchmarkScalarDecoding: encoded := s.Encode(); dec := DecodeToScalar(encoded)
DoScalarRoundTrip ==
    /\ Idle
    /\ \E c \in Ctors, b \in Keys :
        LET s == Construct(c, [bytes |-> <<b>>])
        IN  /\ law' = [op |-> "ScalarRoundTrip", s |-> s, encoded |-> ScalarEncode(s),
                        dec |-> DecodeToScalar(ScalarEncode(s))]
            /\ UNCHANGED <<sigVars, decVars, proofVars, wireVars, cross, trip, pair, hashed, objVars, concVars>>

\* dec := DecodeToScalar(in)
DoDecodeToScalar ==
    /\ Idle
    /\ \E in \in ScalarInputs :
        /\ law' = [op |-> "DecodeToScalar", in |-> in, dec |-> DecodeToScalar(in)]
        /\ UNCHANGED <<sigVars, decVars, proofVars, wireVars, cross, trip, pair, hashed, objVars, concVars>>

\* the operations that make operands for the operation that follows them
PrepOps == {"ScalarBaseMul", "Sign"}

\* one operation follows the constructors and at most one preparing one
CanOp ==
    /\ starved = None
    /\ LabIdle => Idle
    /\ IF lastOp = None THEN TRUE ELSE lastOp.op \in PrepOps /\ lastOp.n < 2

OpCount == IF lastOp = None THEN 1 ELSE lastOp.n + 1

\* s := a constructor of the curve; the second scalar is made as scalar2 of
\* TestBackendCompatibility is
DoNewScalar ==
    /\ starved = None /\ lastOp = None
    /\ LabIdle => Idle
    /\ Len(scalars) < 2
    /\ \E c \in Ctors, rd \in Reads :
        /\ Len(scalars) = 1 => c = "ScalarFromInt"
        /\ IsErr(rd) => c = "NewRandomScalar"
        /\ starved' = IF IsErr(rd) THEN Construct(c, rd) ELSE starved
        /\ IF IsPanic(Construct(c, rd))
           THEN UNCHANGED <<heap, scalars>>
           ELSE /\ heap' = Append(heap, Construct(c, rd).value)
                /\ scalars' = Append(scalars, NewRef(heap))
        /\ UNCHANGED <<sigVars, decVars, proofVars, wireVars, cross, testVars,
                       pool, points, lastOp, concVars>>

\* r := s.Add(b), s.Sub(b), s.Mul(b), s.Negate(), s.Inverse()
DoScalarArith ==
    /\ CanOp
    /\ \E op \in ScalarArith, i \in 1..Len(scalars), j \in 1..Len(scalars),
       a \in getBigInt(pool, heap) :
        /\ heap' = Store(heap, a, ScalarImplResult(op, heap, scalars[i], scalars[j], a))
        /\ pool' = ScalarImplPool(pool, a)
        /\ scalars' = Append(scalars, a)
        /\ lastOp' = [op |-> op, n |-> OpCount, out |-> [new |-> "scalar"]]
        /\ UNCHANGED <<sigVars, decVars, proofVars, wireVars, cross, testVars,
                       points, starved, concVars>>

\* s.Encode(), s.Eq(b), s.IsZero()
DoScalarRead ==
    /\ CanOp
    /\ \E op \in ScalarReads, i \in 1..Len(scalars), j \in 1..Len(scalars) :
        /\ lastOp' = [op |-> op, n |-> OpCount,
                      out |-> ScalarImplRead(op, heap, scalars[i], scalars[j])]
        /\ UNCHANGED <<sigVars, decVars, proofVars, wireVars, cross, testVars,
                       heap, pool, scalars, points, starved, concVars>>

\* the outcome out of an operation that returns a point
ReturnPoint(op, out) ==
    /\ IF IsPanic(out)
       THEN /\ lastOp' = [op |-> op, n |-> OpCount, out |-> out]
            /\ UNCHANGED <<heap, points>>
       ELSE /\ lastOp' = [op |-> op, n |-> OpCount, out |-> [new |-> "point"]]
            /\ heap' = out.heap
            /\ points' = Append(points, [x |-> out.x, y |-> out.y])
    /\ UNCHANGED <<sigVars, decVars, proofVars, wireVars, cross, testVars,
                   pool, scalars, starved, concVars>>

\* q := p.Add(b), p.Sub(b), p.ScalarMul(s), p.Copy()
DoPointArith ==
    /\ CanOp
    /\ \E op \in PointArith, p \in 1..Len(points), b \in 1..Len(points),
       s \in 1..Len(scalars) :
        /\ ReturnPoint(op, PointImplResult(op, heap, points[p], points[b], scalars[s]))

\* q := curve.ScalarBaseMul(s), curve.ScalarMul(s, p)
DoCurveMul ==
    /\ CanOp
    /\ \E op \in CurveMuls, s \in 1..Len(scalars), p \in 1..Len(points) :
        /\ ReturnPoint(op, CurveImplResult(op, heap, scalars[s], points[p], points[1]))

\* p.Encode(), p.Equals(b), p.IsZero()
DoPointRead ==
    /\ CanOp
    /\ \E op \in PointReads, p \in 1..Len(points), b \in 1..Len(points) :
        /\ lastOp' = [op |-> op, n |-> OpCount,
                      out |-> PointImplRead(op, heap, points[p], points[b])]
        /\ UNCHANGED <<sigVars, decVars, proofVars, wireVars, cross, testVars,
                       heap, pool, scalars, points, starved, concVars>>

\* r and s2 of Sign: taken from the pool, set, and put back when Sign returns
SignCells(sg, a1, a2) ==
    putBigInt(Store(Store(heap, a1, SetBytes(SubSeq(sg, 1, ScalarLen))), a2,
                    SetBytes(SubSeq(sg, ScalarLen + 1, 2 * ScalarLen))),
              pool, a1, a2)

\* sig, err := curve.Sign(s, p)
DoSignObjects ==
    /\ CanOp
    /\ \E s \in 1..Len(scalars), p \in 1..Len(points), nonce \in 1..MaxProofNonce :
        LET key  == FillBytes(heap[scalars[s]], ScalarLen)
            hash == <<Sum256(PointEncode(PointOf(heap, points[p])))>>
            sg   == EthSign(hash, key, nonce)
        IN  /\ SeckeyValid(key) => NonceOK(hash, key, nonce)
            /\ \/ /\ IsErr(sg)
                  /\ lastOp' = [op |-> "Sign", n |-> OpCount, out |-> sg]
                  /\ UNCHANGED <<heap, pool>>
               \/ /\ ~IsErr(sg)
                  /\ \E a1 \in getBigInt(pool, heap) :
                       \E a2 \in getBigInt(pool \ {a1}, Store(heap, a1, 0)) :
                          /\ heap' = SignCells(sg.sig, a1, a2).heap
                          /\ pool' = SignCells(sg.sig, a1, a2).pool
                  /\ lastOp' = [op |-> "Sign", n |-> OpCount, out |-> [ok |-> TRUE]]
            /\ UNCHANGED <<sigVars, decVars, proofVars, wireVars, cross, testVars,
                           scalars, points, starved, concVars>>

\* curve.Verify(q, p, sig) of a signature of p made with the scalar s
DoVerifyObjects ==
    /\ CanOp
    /\ \E s \in 1..Len(scalars), p \in 1..Len(points), q \in 1..Len(points),
       nonce \in 1..MaxProofNonce :
        LET key  == FillBytes(heap[scalars[s]], ScalarLen)
            hash == <<Sum256(PointEncode(PointOf(heap, points[p])))>>
            sg   == Sign(ScalarOf(heap, scalars[s]), PointOf(heap, points[p]), nonce)
        IN  /\ SeckeyValid(key) /\ NonceOK(hash, key, nonce)
            /\ lastOp' = [op |-> "Verify", n |-> OpCount,
                          out |-> Verify(PointOf(heap, points[q]),
                                         PointOf(heap, points[p]), sg.der)]
            /\ UNCHANGED <<sigVars, decVars, proofVars, wireVars, cross, testVars,
                           heap, pool, scalars, points, starved, concVars>>

\* secret := GenerateSecretForCurves(A, B)
DoGenerateSecret ==
    /\ Idle
    /\ \E A \in Curves, B \in Curves, b \in Keys :
        /\ secret' = [A |-> A, B |-> B, x |-> GenerateSecretForCurves(A, B, <<b>>)]
        /\ UNCHANGED <<sigVars, decVars, stream, proof, verdict, again, wireVars, cross, labVars, concVars>>

\* proof := NewProof(A, B, secret), for the groups served by the engine
DoNewProof ==
    /\ secret # None
    /\ proof = None
    /\ secret.A = Secp256k1 /\ secret.B = Secp256k1
    /\ \E st \in Streams, nonce \in 1..MaxProofNonce :
        /\ LET xs   == ScalarFromBytes(secret.x)
               X    == PointScalarMul(basePoint, xs)
               hash == <<Sum256(PointEncode(X))>>
           IN  SeckeyValid(ScalarEncode(xs)) => NonceOK(hash, ScalarEncode(xs), nonce)
        /\ stream' = st
        /\ proof' = NewProof(secret.A, secret.B, secret.x,
                             Entropy(st, ProofBits(secret.A, secret.B)), nonce)
        /\ UNCHANGED <<sigVars, decVars, secret, verdict, again, wireVars, cross, labVars, concVars>>

\* verdict := proof.Verify(A, B)
DoVerifyProof ==
    /\ proof # None
    /\ "bits" \in DOMAIN proof
    /\ verdict = None
    /\ verdict' = VerifyRun(proof).result
    /\ proof' = VerifyRun(proof).proof
    /\ UNCHANGED <<sigVars, decVars, secret, stream, again, wireVars, cross, labVars, concVars>>

\* again := proof.Verify(A, B), as the iterations of
\* BenchmarkDLEQProofVerification do
DoVerifyAgain ==
    /\ verdict # None
    /\ again = None
    /\ wire = <<>>
    /\ again' = VerifyRun(proof).result
    /\ proof' = VerifyRun(proof).proof
    /\ UNCHANGED <<sigVars, decVars, secret, stream, verdict, wireVars, cross, labVars, concVars>>

\* wire := proof.Encode()
DoEncode ==
    /\ verdict # None
    /\ again = None
    /\ wire = <<>>
    /\ wire' = EncodeProof(proof)
    /\ UNCHANGED <<sigVars, decVars, proofVars, wireOp, decoded, decVerdict, cross, labVars, concVars>>

\* the encoded proofs that are altered in transit
Tamperable ==
    /\ wire # <<>> /\ wireOp = "none" /\ decoded = None
    /\ verdict = [ok |-> TRUE]
    /\ stream.pos = 0 /\ stream.seed <= MaxTamperSeed
    /\ SecretValue(secret.x) <= MaxTamperSecret

\* the bytes of an encoded proof of n bits that are altered
TamperBytes(n, w) ==
    (1..(MaxTamperBit * TupleSize)) \cup ((n * TupleSize + 1)..Len(w))

\* one bit of the encoded proof is inverted
DoFlipWire ==
    /\ Tamperable
    /\ \E i \in TamperBytes(ProofBits(secret.A, secret.B), wire), j \in 0..7 :
           wire' = FlipBit(wire, i, j)
    /\ wireOp' = "flip"
    /\ UNCHANGED <<sigVars, decVars, proofVars, decoded, decVerdict, cross, labVars, concVars>>

\* the encoded proof loses its last bytes
DoCutWire ==
    /\ Tamperable
    /\ \E k \in 1..MaxResize : wire' = SubSeq(wire, 1, Len(wire) - k)
    /\ wireOp' = "cut"
    /\ UNCHANGED <<sigVars, decVars, proofVars, decoded, decVerdict, cross, labVars, concVars>>

\* bytes are appended to the encoded proof
DoExtendWire ==
    /\ Tamperable
    /\ \E k \in 1..MaxResize : wire' = wire \o Zeros(k)
    /\ wireOp' = "extend"
    /\ UNCHANGED <<sigVars, decVars, proofVars, decoded, decVerdict, cross, labVars, concVars>>

\* decoded := DecodeProof(A, B, wire)
DoDecode ==
    /\ wire # <<>>
    /\ decoded = None
    /\ decoded' = DecodeProof(secret.A, secret.B, wire)
    /\ UNCHANGED <<sigVars, decVars, proofVars, wire, wireOp, decVerdict, cross, labVars, concVars>>

\* decVerdict := decoded.Verify(A, B)
DoVerifyDecoded ==
    /\ "proof" \in DOMAIN decoded
    /\ decVerdict = None
    /\ decVerdict' = VerifyProof(decoded.proof)
    /\ UNCHANGED <<sigVars, decVars, proofVars, wire, wireOp, decoded, cross, labVars, concVars>>

Next ==
    \/ DoSign
    \/ DoFlip
    \/ DoCut
    \/ DoVerify
    \/ DoDecodeToPoint
    \/ DoCrossEncode
    \/ DoRoundTrip
    \/ DoCompareMul
    \/ DoHashToScalar
    \/ DoMatchesEncode
    \/ DoInverse
    \/ DoSubAdd
    \/ DoDerRoundTrip
    \/ DoNilPoint
    \/ DoScalarRoundTrip
    \/ DoDecodeToScalar
    \/ DoNewScalar
    \/ DoScalarArith
    \/ DoScalarRead
    \/ DoPointArith
    \/ DoCurveMul
    \/ DoPointRead
    \/ DoSignObjects
    \/ DoVerifyObjects
    \/ DoGenerateSecret
    \/ DoNewProof
    \/ DoVerifyProof
    \/ DoVerifyAgain
    \/ DoEncode
    \/ DoFlipWire
    \/ DoCutWire
    \/ DoExtendWire
    \/ DoDecode
    \/ DoVerifyDecoded

Spec == Init /\ [][Next]_vars

-----------------------------------------------------------------------------
(* Concurrent calls of CurveImpl.ScalarBaseMul, ScalarMul, Sign and Verify  *)
(* that share the pools.  A call runs the statements of its method one at   *)
(* a time; sync.Pool's Get and Put are atomic.                              *)

\* scalars of the concurrent calls
MaxCallKey == 2

CallKeys == 1..MaxCallKey

CallIds == {1, 2}

ConcOps == {"ScalarBaseMul", "ScalarMul", "Sign", "Verify"}

\* the statements of the methods that touch a pooled object or compute the
\* result: <<kind, operand>>
Program(op) ==
    CASE op \in {"ScalarBaseMul", "ScalarMul"} ->
            <<(<<"get", "b32">>), <<"fill", "b32">>, <<"run", "mult">>, <<"put", "b32">>>>
      [] op = "Sign" ->
            <<(<<"get", "b32">>), <<"fill", "b32">>, <<"run", "sign">>,
              <<"getInt", "r">>, <<"setInt", "r">>, <<"getInt", "s2">>,
              <<"setInt", "s2">>, <<"run", "encode">>, <<"putInts", "r">>,
              <<"put", "b32">>>>
      [] op = "Verify" ->
            <<(<<"run", "decode">>), <<"get", "b64">>, <<"fill", "b64">>,
              <<"get", "b65">>, <<"fill", "b65">>, <<"run", "verify">>,
              <<"put", "b65">>, <<"put", "b64">>>>

\* the statement the call cl is at
Instr(cl) ==
    IF cl.pc > Len(Program(cl.op)) THEN <<"done", "">> ELSE Program(cl.op)[cl.pc]

\* a call of op with the scalar k that has not begun
NewCall(op, k) ==
    [op |-> op, k |-> k, pc |-> 1, b32 |-> NilRef, b64 |-> NilRef, b65 |-> NilRef,
     r |-> NilRef, s2 |-> NilRef, sig |-> <<>>, out |-> None]

\* the byte width of the pool a slot is served by
SlotSize(slot) ==
    CASE slot = "b32" -> ScalarLen
      [] slot = "b64" -> 2 * ScalarLen
      [] slot = "b65" -> 1 + 2 * ScalarLen

\* the nonce the library derives from the message hash and the key
SignNonce(hash, key) ==
    IF SeckeyValid(key) THEN CHOOSE n \in 1..(N - 1) : NonceOK(hash, key, n) ELSE 1

\* the message point of Sign and Verify, and the point of ScalarMul
CallPoint == altBasePoint

CallHash == <<Sum256(PointEncode(CallPoint))>>

\* the signature given to a Verify call, and the public key it is given
CallSig(cl) ==
    Sign(ScalarFromInt(cl.k), CallPoint,
         SignNonce(CallHash, ScalarEncode(ScalarFromInt(cl.k)))).der

CallPub(cl) == ScalarBaseMul(ScalarFromInt(cl.k))

\* what the call returns when no other call runs
Alone(cl) ==
    CASE cl.op = "ScalarBaseMul" -> ScalarBaseMul(ScalarFromInt(cl.k))
      [] cl.op = "ScalarMul" -> ScalarMul(ScalarFromInt(cl.k), CallPoint)
      [] cl.op = "Sign" ->
            Sign(ScalarFromInt(cl.k), CallPoint,
                 SignNonce(CallHash, ScalarEncode(ScalarFromInt(cl.k))))
      [] cl.op = "Verify" -> Verify(CallPub(cl), CallPoint, CallSig(cl))

\* a pool that hands out the slices that are still in use
getBytesLive(bp, bs, size) ==
    {b \in 1..Len(bs) : Len(bs[b]) = size} \cup {Len(bs) + 1}

\* the slices a byte pool's Get may return: one that was put, or a new one
getBytes(bp, bs, size) == {b \in bp : Len(bs[b]) = size} \cup {Len(bs) + 1}

\* the slice b made by the pool's New if it is not one of bs
Made(bs, b, size) == IF b = Len(bs) + 1 THEN Append(bs, Zeros(size)) ELSE bs

\* putBytes32, putBytes64, putBytes65: cleared
putBytes(bs, b) == [bs EXCEPT ![b] = Zeros(Len(bs[b]))]

\* what FillBytes writes into the slice of a slot
FillWith(cl, slot) ==
    CASE slot = "b32" -> FillBytes(ScalarFromInt(cl.k).value, ScalarLen)
      [] slot = "b64" -> FillBytes(decodeDER(CallSig(cl)).r, ScalarLen)
                         \o FillBytes(decodeDER(CallSig(cl)).s, ScalarLen)
      [] slot = "b65" -> <<4>> \o FillBytes(CallPub(cl).x, ScalarLen)
                               \o FillBytes(CallPub(cl).y, ScalarLen)

\* the call after the statement that computes from the pooled objects
Run(cl, what, bs, h) ==
    CASE what = "mult" ->
            [cl EXCEPT !.pc = @ + 1,
                       !.out = IF cl.op = "ScalarBaseMul" THEN ScalarMult(Gx, Gy, bs[cl.b32])
                               ELSE ScalarMult(CallPoint.x, CallPoint.y, bs[cl.b32])]
      [] what = "sign" ->
            LET sg == EthSign(CallHash, bs[cl.b32], SignNonce(CallHash, bs[cl.b32]))
            IN  IF IsErr(sg) THEN [cl EXCEPT !.pc = Len(Program(cl.op)), !.out = sg]
                ELSE [cl EXCEPT !.pc = @ + 1, !.sig = sg.sig]
      [] what = "encode" ->
            [cl EXCEPT !.pc = @ + 1, !.out = [der |-> encodeDER(h[cl.r], h[cl.s2])]]
      [] what = "decode" ->
            IF IsErr(decodeDER(CallSig(cl)))
            THEN [cl EXCEPT !.pc = Len(Program(cl.op)) + 1, !.out = [ok |-> FALSE]]
            ELSE [cl EXCEPT !.pc = @ + 1]
      [] what = "verify" ->
            [cl EXCEPT !.pc = @ + 1,
                       !.out = [ok |-> VerifySignature(bs[cl.b65], CallHash, bs[cl.b64])]]

\* the half of the library's signature that r, and that s2, is set to
SigHalf(cl, slot) ==
    IF slot = "r" THEN SubSeq(cl.sig, 1, ScalarLen)
    ELSE SubSeq(cl.sig, ScalarLen + 1, 2 * ScalarLen)

ConcInit ==
    /\ Start
    /\ calls \in [CallIds -> {NewCall(op, k) : op \in ConcOps, k \in CallKeys}]

\* the variables the concurrent calls leave alone
sessionVars == <<sigVars, decVars, proofVars, wireVars, cross, testVars,
                 scalars, points, lastOp, starved>>

\* getBytes32(), getBytes64(), getBytes65()
CallGet(c) ==
    /\ Instr(calls[c])[1] = "get"
    /\ \E b \in getBytes(bufPool, bufs, SlotSize(Instr(calls[c])[2])) :
        /\ bufs' = Made(bufs, b, SlotSize(Instr(calls[c])[2]))
        /\ bufPool' = bufPool \ {b}
        /\ calls' = [calls EXCEPT ![c] = [@ EXCEPT ![Instr(@)[2]] = b, !.pc = @ + 1]]
    /\ UNCHANGED <<sessionVars, heap, pool>>

\* FillBytes into the slice
CallFill(c) ==
    /\ Instr(calls[c])[1] = "fill"
    /\ bufs' = [bufs EXCEPT ![calls[c][Instr(calls[c])[2]]] =
                                 FillWith(calls[c], Instr(calls[c])[2])]
    /\ calls' = [calls EXCEPT ![c].pc = @ + 1]
    /\ UNCHANGED <<sessionVars, heap, pool, bufPool>>

\* the library call, encodeDER, decodeDER
CallRun(c) ==
    /\ Instr(calls[c])[1] = "run"
    /\ calls' = [calls EXCEPT ![c] = Run(@, Instr(@)[2], bufs, heap)]
    /\ UNCHANGED <<sessionVars, heap, pool, bufs, bufPool>>

\* r := getBigInt(), s2 := getBigInt()
CallGetInt(c) ==
    /\ Instr(calls[c])[1] = "getInt"
    /\ \E a \in getBigInt(pool, heap) :
        /\ heap' = Store(heap, a, Load(heap, a))
        /\ pool' = pool \ {a}
        /\ calls' = [calls EXCEPT ![c] = [@ EXCEPT ![Instr(@)[2]] = a, !.pc = @ + 1]]
    /\ UNCHANGED <<sessionVars, bufs, bufPool>>

\* r.SetBytes(sig[:32]), s2.SetBytes(sig[32:64])
CallSetInt(c) ==
    /\ Instr(calls[c])[1] = "setInt"
    /\ heap' = Store(heap, calls[c][Instr(calls[c])[2]],
                     SetBytes(SigHalf(calls[c], Instr(calls[c])[2])))
    /\ calls' = [calls EXCEPT ![c].pc = @ + 1]
    /\ UNCHANGED <<sessionVars, pool, bufs, bufPool>>

\* the deferred putBigInt(s2) and putBigInt(r)
CallPutInts(c) ==
    /\ Instr(calls[c])[1] = "putInts"
    /\ heap' = putBigInt(heap, pool, calls[c].r, calls[c].s2).heap
    /\ pool' = putBigInt(heap, pool, calls[c].r, calls[c].s2).pool
    /\ calls' = [calls EXCEPT ![c] = [@ EXCEPT !.r = NilRef, !.s2 = NilRef, !.pc = @ + 1]]
    /\ UNCHANGED <<sessionVars, bufs, bufPool>>

\* the deferred putBytes32, putBytes64, putBytes65
CallPut(c) ==
    /\ Instr(calls[c])[1] = "put"
    /\ bufs' = putBytes(bufs, calls[c][Instr(calls[c])[2]])
    /\ bufPool' = bufPool \cup {calls[c][Instr(calls[c])[2]]}
    /\ calls' = [calls EXCEPT ![c] = [@ EXCEPT ![Instr(@)[2]] = NilRef, !.pc = @ + 1]]
    /\ UNCHANGED <<sessionVars, heap, pool>>

ConcNext ==
    \E c \in CallIds :
        \/ CallGet(c)
        \/ CallFill(c)
        \/ CallRun(c)
        \/ CallGetInt(c)
        \/ CallSetInt(c)
        \/ CallPutInts(c)
        \/ CallPut(c)

ConcSpec == ConcInit /\ [][ConcNext]_vars

-----------------------------------------------------------------------------
\* C4: a signature that Sign returned without error verifies under the
\* public key ScalarBaseMul(k) and the message point it was made for.
C4_SignVerifyRoundTrip ==
    ("ok" \in DOMAIN verified /\ flips = 0 /\ cuts = 0) => verified.ok

C4_Witness ==
    /\ "ok" \in DOMAIN verified /\ flips = 0 /\ cuts = 0
    /\ verified.ok
    /\ Len(wireSig) > 6 + 2 * ScalarLen - 1

\* C5: Verify returns a boolean for every signature byte string, it never panics.
C5_VerifyNeverPanics == ~IsPanic(verified)

\* the byte string is the compressed encoding of a point of the curve
IsCompressedPoint(in) ==
    /\ Len(in) = 1 + ScalarLen
    /\ in[1] \in {2, 3}
    /\ \E y \in 0..(P - 1) : OnCurve(SetBytes(Tail(in)), y) /\ (y % 2 = 1) = (in[1] = 3)

\* C6: DecodeToPoint returns an error, and no point, for every input that is
\* not the compressed encoding of a point of the curve.
C6_DecodeRejectsInvalid ==
    (decOut # None /\ ~IsCompressedPoint(decIn)) => IsErr(decOut)


\* C1: NewProof returns a proof, without error, for every secret that
\* GenerateSecretForCurves returned, and that proof verifies.
C1_ProofRoundTrip ==
    /\ proof # None => "bits" \in DOMAIN proof
    /\ verdict # None => verdict = [ok |-> TRUE]

C8_SecretInRange ==
    secret # None =>
        /\ SecretValue(secret.x) < 2 ^ Min(secret.A.bitSize, secret.B.bitSize)
        /\ SecretValue(secret.x) % secret.A.order = SecretValue(secret.x)
        /\ SecretValue(secret.x) % secret.B.order = SecretValue(secret.x)

C8_Witness ==
    /\ secret # None
    /\ secret.A.bitSize > secret.B.bitSize
    /\ SecretValue(secret.x) >= 2 ^ (secret.B.bitSize - 1)


\* C2: after one bit of the encoding of a valid proof is inverted, decoding
\* or verification fails with an error; the proof never verifies and
\* nothing panics.
C2_TamperDetected ==
    wireOp = "flip" =>
        /\ decoded # None => (IsErr(decoded) \/ "proof" \in DOMAIN decoded)
        /\ decVerdict # None => IsErr(decVerdict)

\* C9: the encoding of a valid proof decodes, to a structurally equal proof.
C9_CodecRoundTrip ==
    (decoded # None /\ wireOp = "none" /\ verdict = [ok |-> TRUE]) =>
        /\ "proof" \in DOMAIN decoded
        /\ ProofEquals(decoded.proof, proof)

C7_EnginesAgree ==
    cross # None =>
        /\ cross.ethSc = cross.altSc
        /\ cross.ethPt = cross.altPt
        /\ AltDecodeToScalar(cross.ethSc) = DecodeToScalar(cross.ethSc)
        /\ DecodeToScalar(cross.altSc) = AltDecodeToScalar(cross.altSc)
        /\ AltDecodeToPoint(cross.ethPt) = DecodeToPoint(cross.ethPt)
        /\ DecodeToPoint(cross.altPt) = AltDecodeToPoint(cross.altPt)

\* C11: the encoding of a point x*G decodes, without error, to a point
\* that Equals it.
C11_PointRoundTrip ==
    trip # None =>
        /\ "point" \in DOMAIN trip.P2
        /\ PointEquals(trip.P, trip.P2.point)

\* C12: the encoding of every point the curve produced has exactly
\* CompressedPointSize() bytes.
C12_EncodedSize ==
    /\ trip # None => Len(trip.out) = CompressedPointSize
    /\ pair # None => Len(pair.point1) = CompressedPointSize
                       /\ Len(pair.point2) = CompressedPointSize

C12_Witness ==
    /\ trip # None
    /\ trip.P = NilPoint
    /\ Len(trip.out) = CompressedPointSize

\* C13: ScalarBaseMul(k) and ScalarMul(k, BasePoint()) encode to the same
\* bytes, for every scalar k.
C13_BaseMulAgrees ==
    pair # None => pair.point1 = pair.point2

C13_Witness ==
    /\ pair # None
    /\ pair.k > N
    /\ pair.point1 = pair.point2

\* C15: HashToScalar returns a scalar and no error, the same scalar when
\* called again with the same input, and that scalar is the hash value
\* reduced modulo the group order.
C15_HashToScalarReduced ==
    hashed # None =>
        /\ ~Failed(hashed.out)
        /\ hashed.again = hashed.out
        /\ hashed.out.value = Sum512(hashed.in) % N
        /\ hashed.out.value < N

C15_Witness ==
    /\ hashed # None
    /\ Sum512(hashed.in) >= N
    /\ hashed.out.value < N

\* C14: every scalar the engine has constructed or computed holds an
\* integer below the group order, and two scalars that denote the same
\* field element are Eq and have the same encoding.
C14_ScalarsReduced ==
    /\ \A i \in 1..Len(scalars) : heap[scalars[i]] < N
    /\ \A i \in 1..Len(scalars), j \in 1..Len(scalars) :
           heap[scalars[i]] % N = heap[scalars[j]] % N =>
               /\ ScalarEq(ScalarOf(heap, scalars[i]), ScalarOf(heap, scalars[j]))
               /\ ScalarEncode(ScalarOf(heap, scalars[i]))
                      = ScalarEncode(ScalarOf(heap, scalars[j]))

\* the values of the scalars and of the points, in the order they were made
ScalarValues(h, S) == [i \in 1..Len(S) |-> h[S[i]]]

PointValues(h, Ps) == [i \in 1..Len(Ps) |-> PointOf(h, Ps[i])]

\* the big.Ints that scalars and points hold
Cells(S, Ps) ==
    {S[i] : i \in 1..Len(S)} \cup {Ps[i].x : i \in 1..Len(Ps)}
    \cup {Ps[i].y : i \in 1..Len(Ps)}

\* C18: no operation changes the value of a scalar or of a point that
\* exists, the curve's base points included; a result is a new object, a
\* scalar result holds a big.Int that no other object holds, and no big.Int
\* that an object holds is in the pool.
C18_Immutable ==
    [][/\ Len(scalars') >= Len(scalars)
       /\ Len(points') >= Len(points)
       /\ SubSeq(ScalarValues(heap', scalars'), 1, Len(scalars))
              = ScalarValues(heap, scalars)
       /\ SubSeq(PointValues(heap', points'), 1, Len(points))
              = PointValues(heap, points)
       /\ Len(scalars') > Len(scalars) =>
              scalars'[Len(scalars')] \notin Cells(scalars, points)
       /\ pool' \cap Cells(scalars', points') = {}]_vars

\* an operation took its result from the pool that Sign had filled
C18_Witness ==
    /\ lastOp # None
    /\ lastOp.op \in ScalarArith
    /\ Cardinality(pool) = 1

\* the sum of the identity and the base point holds the base point's own
\* big.Ints, and the base point is what it was
C18_WitnessShared ==
    /\ lastOp # None
    /\ lastOp.op = "Point.Add"
    /\ Len(points) = 4
    /\ points[4] = points[1]
    /\ PointOf(heap, points[1]) = basePoint

\* C20: when the read of the entropy source fails, NewRandomScalar panics
\* and returns no scalar, and NewProof returns no proof.
C20_EntropyFailureAborts ==
    /\ starved # None => (IsPanic(starved) /\ scalars = <<>>)
    /\ (proof # None /\ stream.val = Nil) => Failed(proof)

C20_Witness ==
    /\ IsPanic(starved)
    /\ scalars = <<>>

\* C17: in every proof NewProof returned, the sum over the bits i of 2^i
\* times the bit's commitment equals x*G + R*H in group A and in group B,
\* R being the disclosed sum of 2^i times the bit's blinding scalar.
C17_AggregateBinding ==
    (proof # None /\ "bits" \in DOMAIN proof) =>
        /\ PointEquals(WeightedSum(proof.bits, 1, Len(proof.bits)),
                       PointAdd(PointScalarMul(basePoint, ScalarFromBytes(secret.x)),
                                PointScalarMul(altBasePoint, proof.RA)))
        /\ PointEquals(WeightedSum(proof.bits, 2, Len(proof.bits)),
                       PointAdd(PointScalarMul(basePoint, ScalarFromBytes(secret.x)),
                                PointScalarMul(altBasePoint, proof.RB)))

\* both witness signatures verify
SigsOK(pr) ==
    /\ Verify(pr.XA, pr.XA, pr.sigA) = [ok |-> TRUE]
    /\ Verify(pr.XB, pr.XB, pr.sigB) = [ok |-> TRUE]

\* the verdict v on the proof pr names the first check that fails
FirstFailure(pr, v) ==
    /\ v = [ok |-> TRUE] => (FailingBits(pr) = {} /\ SumCheck(pr) /\ SigsOK(pr))
    /\ IsErr(v) =>
          CASE v.err = "InvalidBitProof" ->
                   /\ v.bit + 1 \in FailingBits(pr)
                   /\ \A i \in FailingBits(pr) : v.bit + 1 <= i
            [] v.err = "CommitmentSumMismatch" ->
                   FailingBits(pr) = {} /\ ~SumCheck(pr)
            [] v.err = "WitnessSignatureInvalid" ->
                   FailingBits(pr) = {} /\ SumCheck(pr) /\ ~SigsOK(pr)
            [] OTHER -> FALSE
    /\ v = [ok |-> TRUE] \/ IsErr(v)

LawIs(o) == law # None /\ law.op = o

\* C22: the bytes obtained through encodeViaIntoOrFallback (PointImpl has no
\* EncodeInto, so through Encode copied into a buffer of
\* CompressedPointSize() bytes) are the bytes of P.Encode().
C22_EncodeIntoMatches ==
    LawIs("MatchesEncode") => law.viaInto = law.viaEncode

C22_Witness ==
    /\ LawIs("MatchesEncode")
    /\ law.x \in 1..(N - 1)
    /\ law.viaInto = law.viaEncode

\* C25: Inverse of a scalar that is zero modulo the group order panics and
\* returns no scalar.
C25_InverseOfZeroPanics ==
    (LawIs("Inverse") /\ Mod(law.s.value, N) = 0) => IsPanic(law.inv)

\* C26: for a scalar s that is nonzero modulo the group order,
\* s.Inverse().Mul(s) is Eq to ScalarFromInt(1), whatever the big.Int taken
\* from the pool held before.
C26_InverseTimesSelf ==
    (LawIs("Inverse") /\ Mod(law.s.value, N) # 0) =>
        ScalarEq(law.prod, ScalarFromInt(1))

C26_Witness ==
    /\ LawIs("Inverse")
    /\ law.s.value > N
    /\ law.prev # 0
    /\ ScalarEq(law.prod, ScalarFromInt(1))

\* C27: for all points P and Q, the identity included, P.Sub(Q).Add(Q)
\* Equals P, P.Sub(identity) Equals P, and P.Sub(P) is zero.
C27_SubInvertsAdd ==
    LawIs("SubAdd") =>
        /\ PointEquals(law.back, law.P)
        /\ PointIsZero(law.Q) => PointEquals(law.D, law.P)
        /\ law.P = law.Q => PointIsZero(law.D)

\* C28: for integers r and s of at most the scalar width,
\* decodeDER(encodeDER(r, s)) returns no error and exactly (r, s).
C28_DerRoundTrip ==
    LawIs("DER") =>
        /\ ~Failed(law.out)
        /\ law.out.r = law.r
        /\ law.out.s = law.s

C28_Witness ==
    /\ LawIs("DER")
    /\ law.r >= Radix \div 2
    /\ law.s = 0
    /\ law.out = [r |-> law.r, s |-> law.s]

\* C29: every operation that is given a point whose coordinates are nil
\* returns, without panicking, what it returns for the identity (0, 0).
C29_NilPointIsIdentity ==
    LawIs("NilPoint") => (~IsPanic(law.out) /\ law.out = law.ref)

\* C30: s.Encode() has the scalar width, DecodeToScalar(s.Encode()) returns
\* no error and a scalar Eq to s, and DecodeToScalar returns an error for
\* every input of another length.
C30_ScalarRoundTrip ==
    /\ LawIs("ScalarRoundTrip") =>
          /\ Len(law.encoded) = ScalarLen
          /\ ~Failed(law.dec)
          /\ ScalarEq(law.dec.scalar, law.s)
    /\ (LawIs("DecodeToScalar") /\ Len(law.in) # ScalarLen) => IsErr(law.dec)

C30_Witness ==
    /\ LawIs("ScalarRoundTrip")
    /\ law.s.value >= N
    /\ ~Failed(law.dec)
    /\ ScalarEq(law.dec.scalar, law.s)

\* the byte slices, and the big.Ints, a call holds
HeldBytes(cl) == {cl.b32, cl.b64, cl.b65} \ {NilRef}

HeldInts(cl) == {cl.r, cl.s2} \ {NilRef}

\* C21: under every interleaving of concurrent ScalarMul, ScalarBaseMul,
\* Sign and Verify calls that share the pools, no pooled slice or big.Int is
\* held by two calls, or held while it rests in a pool, and each call
\* returns what it returns when run alone.
C21_NoInterference ==
    /\ \A c \in CallIds, d \in CallIds :
          c # d => /\ HeldBytes(calls[c]) \cap HeldBytes(calls[d]) = {}
                   /\ HeldInts(calls[c]) \cap HeldInts(calls[d]) = {}
    /\ \A c \in CallIds :
          /\ HeldBytes(calls[c]) \cap bufPool = {}
          /\ HeldInts(calls[c]) \cap pool = {}
          /\ Instr(calls[c])[1] = "done" => calls[c].out = Alone(calls[c])

\* two calls of Sign with different keys hold their slices and big.Ints at
\* the same time
C21_Witness ==
    /\ \A c \in CallIds :
          /\ calls[c].op = "Sign"
          /\ Instr(calls[c]) = <<"run", "encode">>
    /\ calls[1].k # calls[2].k

\* C23: every big.Int resting in bigIntPool is 0 and every byte of every
\* slice resting in a byte pool is 0.
C23_PoolHygiene ==
    /\ \A a \in pool : heap[a] = 0
    /\ \A b \in bufPool : bufs[b] = Zeros(Len(bufs[b]))

\* Sign and Verify have returned, and what they used rests in the pools
C23_Witness ==
    /\ calls[1].op = "Sign" /\ calls[2].op = "Verify"
    /\ \A c \in CallIds : Instr(calls[c])[1] = "done"
    /\ "der" \in DOMAIN calls[1].out
    /\ calls[2].out = [ok |-> TRUE]
    /\ pool # {}
    /\ Cardinality(bufPool) >= 3

\* C24: no Scalar or Point the engine has returned holds a big.Int that
\* rests in bigIntPool (a signature is a new byte slice and holds none).
C24_NoPooledEscape ==
    pool \cap Cells(scalars, points) = {}

\* after Sign put its two big.Ints, a scalar operation took one of them for
\* its result while the other one rests in the pool
C24_Witness ==
    /\ lastOp # None
    /\ lastOp.op \in ScalarArith
    /\ pool = {Len(heap)}
    /\ scalars[Len(scalars)] = Len(heap) - 1

====
